---- MODULE Spec2Model ----
(***************************************************************************)
(* Model of the two streaming clients of the Genie voice client:           *)
(*   genie::STT      (src/unnamed/part_001, lines 19-256)                  *)
(*   genie::wsClient (src/unnamed/part_001, lines 611-996)                 *)
(* Handlers run to completion on one GLib main loop, so every handler is   *)
(* one atomic action.  The libsoup transports, the servers behind them and *)
(* the callers of the public methods are the environment.                  *)
(*                                                                         *)
(* C strings are sequences of one-character strings; NUL is the byte that  *)
(* ends them.                                                              *)
(***************************************************************************)
EXTENDS Integers, Sequences, FiniteSets, TLC

\* ---------------------------------------------------------------- bounds
\* STT transports the caller may ask for (calls of STT::connect).
MaxConn == 2
\* Calls of STT::send_frame and STT::send_done together.
MaxFrames == 3
\* Dialogue transports (wsClient::connect calls: init plus reconnects).
MaxWsConn == 2
\* Largest event id the dialogue server sends; ids are drawn from -1..MaxId.
MaxId == 2
\* sendThingtalk is offered while seq is below this.
MaxSeq == 3
\* STT transports of the reply specification.
MaxReplyConn == 1

\* ------------------------------------------------------------- constants
NULL == 0
\* The value of a member the constructor never assigned.
UNINIT == -1000
\* int16_t samples: dispatch_frame sends length * sizeof(int16_t) bytes.
SizeofInt16 == 2

NUL == "NUL"

\* --------------------------------------------------------------- strings
At(s, i) == IF i <= Len(s) THEN s[i] ELSE NUL

Min(a, b) == IF a <= b THEN a ELSE b

\* strncmp(s, lit, n) == 0: the bytes agree up to the n-th or, if it comes
\* sooner, up to and including the first NUL of either string.
strncmp0(s, lit, n) ==
  \A i \in 1..Min(n, Min(Len(s), Len(lit)) + 1) : At(s, i) = At(lit, i)

\* memcmp(s, lit, n) == 0: the first n bytes agree.
memcmp0(s, lit, n) == \A i \in 1..n : At(s, i) = At(lit, i)

\* text += n
Skip(s, n) == IF n >= Len(s) THEN <<>> ELSE SubSeq(s, n + 1, Len(s))

\* g_ascii_isspace
IsSpace(c) == c \in {" ", "\t", "\n", "\r", "\f"}

RECURSIVE g_strchug(_)
g_strchug(s) ==
  IF s # <<>> /\ IsSpace(Head(s)) THEN g_strchug(Tail(s)) ELSE s

Computer_ == <<"C", "o", "m", "p", "u", "t", "e", "r">>
computer_ == <<"c", "o", "m", "p", "u", "t", "e", "r">>

\* A wake-phrase test that ignores the case of the wake word.
WakewordStripCaseless(text) ==
  LET low(c) == CASE c = "C" -> "c" [] c = "O" -> "o" [] c = "M" -> "m"
                  [] c = "P" -> "p" [] c = "U" -> "u" [] c = "T" -> "t"
                  [] c = "E" -> "e" [] c = "R" -> "r" [] OTHER -> c
      t == [i \in 1..Len(text) |-> low(text[i])]
  IN  IF \/ strncmp0(t, computer_ \o <<",">>, 9)
         \/ strncmp0(t, computer_ \o <<".">>, 9)
      THEN [found |-> TRUE, rest |-> Skip(text, 9)]
      ELSE IF strncmp0(t, computer_, 8)
      THEN [found |-> TRUE, rest |-> Skip(text, 8)]
      ELSE [found |-> FALSE, rest |-> text]

\* A wake-phrase test that always skips 8 bytes.
WakewordStripEight(text) ==
  IF \/ strncmp0(text, Computer_, 8)
     \/ strncmp0(text, computer_, 8)
  THEN [found |-> TRUE, rest |-> Skip(text, 8)]
  ELSE [found |-> FALSE, rest |-> text]

\* The wake-phrase test of STT::on_message: [found, rest of the text].
WakewordStrip(text) ==
  IF \/ strncmp0(text, Computer_ \o <<",">>, 9)
     \/ strncmp0(text, computer_ \o <<",">>, 9)
     \/ strncmp0(text, Computer_ \o <<".">>, 9)
     \/ strncmp0(text, computer_ \o <<".">>, 9)
  THEN [found |-> TRUE, rest |-> Skip(text, 9)]
  ELSE IF \/ strncmp0(text, Computer_, 8)
          \/ strncmp0(text, computer_, 8)
  THEN [found |-> TRUE, rest |-> Skip(text, 8)]
  ELSE [found |-> FALSE, rest |-> text]

\* ----------------------------------------------------------------- state
VARIABLES
  stt_acceptStream,  \* STT::acceptStream
  stt_wconn,         \* STT::wconn: NULL or an STT transport
  queue,             \* STT::queue, head first
  firstFrame,        \* STT::firstFrame
  sconn,             \* state of each STT transport (libsoup's)
  sent,              \* what libsoup accepted for sending on STT transports
  submitted,         \* history: every frame given to send_frame/send_done
  awaiting,          \* history: connect() ran and no open callback since
  idle,              \* history: a close or connect error, no connect() since
  handled,           \* history: STT transports whose on_message has run
  drained,           \* history: frames flush_queue has taken off the queue
  ws_wconn,          \* wsClient::wconn
  ws_acceptStream,   \* wsClient::acceptStream
  seq,               \* wsClient::seq
  lastSaidTextID,    \* wsClient::lastSaidTextID
  tInit,             \* wsClient::tInit
  tStart,            \* wsClient::tStart: UNINIT, or Stamped by sendCommand
  lastTT,            \* history: <<id>> of the last tt message sent, or <<>>
  conversationId,    \* wsClient::conversationId
  wsconn,            \* state of each dialogue transport
  wsurl,             \* the ?id= parameter each dialogue transport asked for
  calls,             \* Audio Player / dialogue-client calls of the last handler
  ws_out,            \* dialogue messages handed to libsoup by the last handler
  lastOp             \* the handler that ran last, with its input

sttVars == <<stt_acceptStream, stt_wconn, queue, firstFrame, sconn, sent,
             submitted, awaiting, idle, handled, drained>>
wsVars == <<ws_wconn, ws_acceptStream, seq, lastSaidTextID, tInit, tStart,
            lastTT, conversationId, wsconn, wsurl>>
vars == <<sttVars, wsVars, calls, ws_out, lastOp>>

Conns == 1..MaxConn
WsConns == 1..MaxWsConn

\* ------------------------------------------------------- frames and wire
\* AudioFrame {samples, length}; samples is a tag naming the buffer.
Frame(k) == [samples |-> k, length |-> 1]
\* send_done's sentinel: length 0, samples nullptr.
EmptyFrame == [samples |-> NULL, length |-> 0]

Payload(c, kind, data, bytes) ==
  [conn |-> c, kind |-> kind, data |-> data, bytes |-> bytes]

\* soup_websocket_connection_send_{text,binary}: libsoup sends only on a
\* connection object whose state is OPEN (g_return_if_fail otherwise).
soup_send(snt, st, c, kind, data, bytes) ==
  IF c \in Conns /\ st[c] = "open"
  THEN Append(snt, Payload(c, kind, data, bytes))
  ELSE snt

\* { "ver": 1 }
Handshake(c) == Payload(c, "text", 1, 12)

dispatch_frame(snt, st, c, frame) ==
  soup_send(snt, st, c, "binary", frame.samples, frame.length * SizeofInt16)

\* A drain that pops the newest frame first.
RECURSIVE flush_from_tail(_, _, _, _)
flush_from_tail(snt, st, c, q) ==
  IF q = <<>> THEN snt
  ELSE flush_from_tail(dispatch_frame(snt, st, c, q[Len(q)]), st, c,
                       SubSeq(q, 1, Len(q) - 1))

\* STT::flush_queue: pop the head and dispatch it until the queue is empty.
\* The result is the wire; the queue is empty afterwards.
RECURSIVE flush_queue(_, _, _, _)
flush_queue(snt, st, c, q) ==
  IF q = <<>> THEN snt
  ELSE flush_queue(dispatch_frame(snt, st, c, Head(q)), st, c, Tail(q))

is_connection_open ==
  /\ stt_acceptStream
  /\ stt_wconn # NULL
  /\ sconn[stt_wconn] = "open"

\* --------------------------------------------------------------- records
Call(op, arg) == [op |-> op, arg |-> arg]
NoMsg == [type |-> "none", status |-> 0, result |-> <<>>, text |-> <<>>]
Op(name, c, m) == [op |-> name, conn |-> c, msg |-> m]
\* lastOp after a handler that takes no message.
NoOp == Op("none", NULL, NoMsg)

\* A dialogue JSON message handed to soup_websocket_connection_send_text.
Json(c, type, body, id) == [conn |-> c, type |-> type, body |-> body, id |-> id]

\* wsClient::checkIsConnected; u is what reading the state of a handle that
\* was never assigned yields.
checkIsConnected(u) ==
  IF ws_wconn = NULL THEN FALSE
  ELSE IF ws_wconn = UNINIT THEN u
  ELSE wsconn[ws_wconn] = "open"

\* gettimeofday(&tStart, NULL) has run.
Stamped == 1

\* A sendCommand that also drops the command while acceptStream is false.
sendCommand_gated(data, u) ==
  IF ~checkIsConnected(u) \/ (ws_wconn # UNINIT /\ ~ws_acceptStream)
  THEN [out |-> <<>>, tInit |-> tInit, tStart |-> tStart]
  ELSE [out |-> <<Json(ws_wconn, "command", data, 0)>>, tInit |-> TRUE,
        tStart |-> Stamped]

\* wsClient::sendCommand: [out: the message sent, tInit and tStart
\* afterwards]
sendCommand(data, u) ==
  IF ~checkIsConnected(u)
  THEN [out |-> <<>>, tInit |-> tInit, tStart |-> tStart]
  ELSE [out |-> <<Json(ws_wconn, "command", data, 0)>>, tInit |-> TRUE,
        tStart |-> Stamped]

\* ------------------------------------------------------ STT: the replies
\* The single JSON text reply {status, result, text}, or a binary message.
TextReply(status, result, text) ==
  [type |-> "text", status |-> status, result |-> result, text |-> text]
BinaryReply == [type |-> "binary", status |-> 0, result |-> <<>>, text |-> <<>>]

ok_ == <<"o", "k">>
SOUND_NO_MATCH == <<"SOUND_NO_MATCH">>

\* What STT::on_message does with a text reply, before it closes the
\* transport: the calls on the Audio Player and on the dialogue client.
STT_reply(m) ==
  IF m.type # "text" THEN <<>>
  ELSE IF m.status = 0
  THEN IF memcmp0(m.result, ok_, 2)
       THEN LET w == WakewordStrip(m.text)
            IN  <<Call("clean_queue", <<>>)>> \o
                (IF w.found
                 THEN <<Call("sendCommand", g_strchug(w.rest))>>
                 ELSE <<Call("playSound", SOUND_NO_MATCH),
                        Call("resume", <<>>)>>)
       ELSE <<>>
  ELSE <<Call("playSound", SOUND_NO_MATCH), Call("resume", <<>>)>>

\* The reply ends in a call of wsClient::sendCommand.
CallsCommand(cs) == cs # <<>> /\ cs[Len(cs)].op = "sendCommand"

\* soup_websocket_connection_close: sends the close frame of an open
\* connection; on one that already sent it, nothing (g_return_if_fail).
soup_close(st, c) == IF st[c] = "open" THEN [st EXCEPT ![c] = "closing"] ELSE st

\* ---------------------------------------------------------- STT: actions
FreeConn == CHOOSE t \in Conns :
              sconn[t] = "none" /\ \A s \in Conns : s < t => sconn[s] # "none"

\* A connect() that leaves wconn as it was.
connect_keeps_wconn ==
  /\ \E t \in Conns : sconn[t] = "none"
  /\ sconn' = [sconn EXCEPT ![FreeConn] = "connecting"]
  /\ firstFrame' = "true"
  /\ awaiting' = TRUE
  /\ idle' = FALSE
  /\ UNCHANGED <<stt_wconn, stt_acceptStream, queue, sent, submitted, handled,
                 drained>>
  /\ UNCHANGED wsVars
  /\ calls' = <<>>
  /\ ws_out' = <<>>
  /\ lastOp' = NoOp

\* STT::connect: a new session and transport, wconn = NULL, firstFrame = true.
STT_connect ==
  /\ \E t \in Conns : sconn[t] = "none"
  /\ sconn' = [sconn EXCEPT ![FreeConn] = "connecting"]
  /\ stt_wconn' = NULL
  /\ firstFrame' = "true"
  /\ awaiting' = TRUE
  /\ idle' = FALSE
  /\ UNCHANGED <<stt_acceptStream, queue, sent, submitted, handled, drained>>
  /\ UNCHANGED wsVars
  /\ calls' = <<>>
  /\ ws_out' = <<>>
  /\ lastOp' = NoOp

\* An on_connection that does not drain the queue.
on_connection_no_flush(t, ok) ==
  /\ sconn[t] = "connecting"
  /\ IF ~ok
     THEN /\ sconn' = [sconn EXCEPT ![t] = "failed"]
          /\ idle' = TRUE
          /\ UNCHANGED <<stt_acceptStream, stt_wconn, queue, sent, awaiting,
                         drained>>
     ELSE LET st == [sconn EXCEPT ![t] = "open"]
          IN  /\ sconn' = st
              /\ stt_wconn' = t
              /\ sent' = soup_send(sent, st, t, "text", 1, 12)
              /\ stt_acceptStream' = TRUE
              /\ queue' = queue
              /\ drained' = drained
              /\ awaiting' = FALSE
              /\ idle' = idle
  /\ UNCHANGED <<firstFrame, submitted, handled>>
  /\ UNCHANGED wsVars
  /\ calls' = <<>>
  /\ ws_out' = <<>>
  /\ lastOp' = NoOp

\* STT::on_connection: the completion of one connect attempt.  On an error
\* it returns; else setConnection, the handshake, acceptStream = true,
\* flush_queue, and the handlers are connected.
on_connection(t, ok) ==
  /\ sconn[t] = "connecting"
  /\ IF ~ok
     THEN /\ sconn' = [sconn EXCEPT ![t] = "failed"]
          /\ idle' = TRUE
          /\ UNCHANGED <<stt_acceptStream, stt_wconn, queue, sent, awaiting,
                         drained>>
     ELSE LET st == [sconn EXCEPT ![t] = "open"]
          IN  /\ sconn' = st
              /\ stt_wconn' = t
              /\ sent' = flush_queue(soup_send(sent, st, t, "text", 1, 12),
                                     st, t, queue)
              /\ stt_acceptStream' = TRUE
              /\ queue' = <<>>
              /\ drained' = drained + Len(queue)
              /\ awaiting' = FALSE
              /\ idle' = idle
  /\ UNCHANGED <<firstFrame, submitted, handled>>
  /\ UNCHANGED wsVars
  /\ calls' = <<>>
  /\ ws_out' = <<>>
  /\ lastOp' = NoOp

STT_on_connection == \E t \in Conns, ok \in BOOLEAN : on_connection(t, ok)

\* STT::send_frame with the next captured frame.
STT_send_frame ==
  /\ Len(submitted) < MaxFrames
  /\ LET frame == Frame(Len(submitted) + 1)
     IN  /\ submitted' = Append(submitted, frame)
         /\ IF is_connection_open
            THEN /\ sent' = dispatch_frame(
                              flush_queue(sent, sconn, stt_wconn, queue),
                              sconn, stt_wconn, frame)
                 /\ queue' = <<>>
                 /\ drained' = drained + Len(queue)
            ELSE /\ queue' = Append(queue, frame)
                 /\ sent' = sent
                 /\ drained' = drained
  /\ UNCHANGED <<stt_acceptStream, stt_wconn, firstFrame, sconn, awaiting,
                 idle, handled>>
  /\ UNCHANGED wsVars
  /\ calls' = <<>>
  /\ ws_out' = <<>>
  /\ lastOp' = NoOp

\* A send_done that forgets the marker when the connection is not open.
send_done_drops_marker ==
  /\ Len(submitted) < MaxFrames
  /\ submitted' = Append(submitted, EmptyFrame)
  /\ IF is_connection_open
     THEN /\ sent' = soup_send(flush_queue(sent, sconn, stt_wconn, queue),
                               sconn, stt_wconn, "binary", NULL, 0)
          /\ queue' = <<>>
          /\ drained' = drained + Len(queue)
     ELSE /\ queue' = queue
          /\ sent' = sent
          /\ drained' = drained
  /\ UNCHANGED <<stt_acceptStream, stt_wconn, firstFrame, sconn, awaiting,
                 idle, handled>>
  /\ UNCHANGED wsVars
  /\ calls' = <<>>
  /\ ws_out' = <<>>
  /\ lastOp' = NoOp

\* STT::send_done
STT_send_done ==
  /\ Len(submitted) < MaxFrames
  /\ submitted' = Append(submitted, EmptyFrame)
  /\ IF is_connection_open
     THEN /\ sent' = soup_send(flush_queue(sent, sconn, stt_wconn, queue),
                               sconn, stt_wconn, "binary", NULL, 0)
          /\ queue' = <<>>
          /\ drained' = drained + Len(queue)
     ELSE /\ queue' = Append(queue, EmptyFrame)
          /\ sent' = sent
          /\ drained' = drained
  /\ UNCHANGED <<stt_acceptStream, stt_wconn, firstFrame, sconn, awaiting,
                 idle, handled>>
  /\ UNCHANGED wsVars
  /\ calls' = <<>>
  /\ ws_out' = <<>>
  /\ lastOp' = NoOp

\* An on_message that does not close the transport.
on_message_keeps_open(t, m, u) ==
  /\ sconn[t] \in {"open", "closing"}
  /\ u => ws_wconn = UNINIT /\ CallsCommand(STT_reply(m))
  /\ LET cs == STT_reply(m)
         r == IF CallsCommand(cs)
              THEN sendCommand(cs[Len(cs)].arg, u)
              ELSE [out |-> <<>>, tInit |-> tInit, tStart |-> tStart]
     IN  /\ calls' = cs
         /\ ws_out' = r.out
         /\ tInit' = r.tInit
         /\ tStart' = r.tStart
  /\ sconn' = sconn
  /\ handled' = handled \cup {t}
  /\ UNCHANGED <<stt_acceptStream, stt_wconn, queue, firstFrame, sent,
                 submitted, awaiting, idle, drained>>
  /\ UNCHANGED <<ws_wconn, ws_acceptStream, seq, lastSaidTextID,
                 conversationId, wsconn, wsurl, lastTT>>
  /\ lastOp' = Op("on_message", t, m)

\* STT::on_message on transport t with message m: the reply is handled,
\* then the transport is closed.
on_message(t, m, u) ==
  /\ sconn[t] \in {"open", "closing"}
  /\ u => ws_wconn = UNINIT /\ CallsCommand(STT_reply(m))
  /\ LET cs == STT_reply(m)
         r == IF CallsCommand(cs)
              THEN sendCommand(cs[Len(cs)].arg, u)
              ELSE [out |-> <<>>, tInit |-> tInit, tStart |-> tStart]
     IN  /\ calls' = cs
         /\ ws_out' = r.out
         /\ tInit' = r.tInit
         /\ tStart' = r.tStart
  /\ sconn' = soup_close(sconn, t)
  /\ handled' = handled \cup {t}
  /\ UNCHANGED <<stt_acceptStream, stt_wconn, queue, firstFrame, sent,
                 submitted, awaiting, idle, drained>>
  /\ UNCHANGED <<ws_wconn, ws_acceptStream, seq, lastSaidTextID,
                 conversationId, wsconn, wsurl, lastTT>>
  /\ lastOp' = Op("on_message", t, m)

\* An on_close that calls connect().
on_close_reconnects(t) ==
  /\ sconn[t] \in {"open", "closing"}
  /\ \E n \in Conns : sconn[n] = "none"
  /\ sconn' = [sconn EXCEPT ![t] = "closed", ![FreeConn] = "connecting"]
  /\ stt_acceptStream' = FALSE
  /\ stt_wconn' = NULL
  /\ idle' = TRUE
  /\ UNCHANGED <<queue, firstFrame, sent, submitted, awaiting, handled,
                 drained>>
  /\ UNCHANGED wsVars
  /\ calls' = <<>>
  /\ ws_out' = <<>>
  /\ lastOp' = NoOp

\* STT::on_close: the transport reached CLOSED (the peer closed it or
\* answered the client's close); acceptStream = false.
on_close(t) ==
  /\ sconn[t] \in {"open", "closing"}
  /\ sconn' = [sconn EXCEPT ![t] = "closed"]
  /\ stt_acceptStream' = FALSE
  /\ idle' = TRUE
  /\ UNCHANGED <<stt_wconn, queue, firstFrame, sent, submitted, awaiting,
                 handled, drained>>
  /\ UNCHANGED wsVars
  /\ calls' = <<>>
  /\ ws_out' = <<>>
  /\ lastOp' = NoOp

STT_on_close == \E t \in Conns : on_close(t)

\* ------------------------------------------------------ dialogue client
\* A conversation id that is a NULL pointer (no string holds this element).
NoConversation == <<"(null)">>

\* One inbound dialogue event: its type string, its numeric id and the
\* member its handler reads (text, name, url, error, ask; for the id event
\* the conversation id).
Event(type, id, body) == [type |-> type, id |-> id, body |-> body]
NoEvent == Event(<<>>, 0, <<>>)

id_ == <<"i", "d">>
text_ == <<"t", "e", "x", "t">>
sound_ == <<"s", "o", "u", "n", "d">>
audio_ == <<"a", "u", "d", "i", "o">>
error_ == <<"e", "r", "r", "o", "r">>
askSpecial_ == <<"a", "s", "k", "S", "p", "e", "c", "i", "a", "l">>
ping_ == <<"p", "i", "n", "g">>
command_ == <<"c", "o", "m", "m", "a", "n", "d">>
new_program_ == <<"n", "e", "w", "-", "p", "r", "o", "g", "r", "a", "m">>
rdl_ == <<"r", "d", "l">>
link_ == <<"l", "i", "n", "k">>
button_ == <<"b", "u", "t", "t", "o", "n">>
video_ == <<"v", "i", "d", "e", "o">>
picture_ == <<"p", "i", "c", "t", "u", "r", "e">>
choice_ == <<"c", "h", "o", "i", "c", "e">>
news_intro_ == <<"n", "e", "w", "s", "-", "i", "n", "t", "r", "o">>

\* The ignored set of wsClient::on_message.
IsIgnoredType(type) ==
  \/ strncmp0(type, command_, 7)
  \/ strncmp0(type, new_program_, 11)
  \/ strncmp0(type, rdl_, 3)
  \/ strncmp0(type, link_, 4)
  \/ strncmp0(type, button_, 6)
  \/ strncmp0(type, video_, 5)
  \/ strncmp0(type, picture_, 7)
  \/ strncmp0(type, choice_, 5)

\* A handlePing that answers twice.
handlePing_twice ==
  IF ~checkIsConnected(FALSE) THEN <<>>
  ELSE <<Json(ws_wconn, "pong", <<>>, 0), Json(ws_wconn, "pong", <<>>, 0)>>

\* wsClient::handlePing: [out: messages sent]
handlePing ==
  IF ~checkIsConnected(FALSE) THEN <<>>
  ELSE <<Json(ws_wconn, "pong", <<>>, 0)>>

\* wsClient::handleSound: the Audio Player calls.
handleSound(name) ==
  IF strncmp0(name, news_intro_, 10)
  THEN <<Call("playSound", <<"SOUND_NEWS_INTRO", "true">>)>>
  ELSE <<>>

\* wsClient::handleAudio
handleAudio(url) == <<Call("playLocation", url)>>

\* A dispatch whose handleText also says a text whose id equals the last
\* one said.
Dispatch_says_equal(ev) ==
  LET same == [calls |-> <<>>, out |-> <<>>,
               lastSaidTextID |-> lastSaidTextID, tInit |-> tInit]
  IN  IF strncmp0(ev.type, text_, 4)
      THEN IF ev.id < lastSaidTextID THEN same
           ELSE [calls |-> <<Call("say", ev.body)>>, out |-> <<>>,
                 lastSaidTextID |-> ev.id, tInit |-> FALSE]
      ELSE IF strncmp0(ev.type, sound_, 5)
      THEN [same EXCEPT !.calls = handleSound(ev.body)]
      ELSE IF strncmp0(ev.type, audio_, 5)
      THEN [same EXCEPT !.calls = handleAudio(ev.body)]
      ELSE IF strncmp0(ev.type, ping_, 4)
      THEN [same EXCEPT !.out = handlePing]
      ELSE same

\* The dispatch of wsClient::on_message for an event that is not the id
\* event, once seq is set and acceptStream was found true:
\* [calls, out, lastSaidTextID, tInit].
Dispatch(ev) ==
  LET same == [calls |-> <<>>, out |-> <<>>,
               lastSaidTextID |-> lastSaidTextID, tInit |-> tInit]
  IN  IF strncmp0(ev.type, text_, 4)
      THEN \* handleText
           IF ev.id <= lastSaidTextID THEN same
           ELSE [calls |-> <<Call("say", ev.body)>>, out |-> <<>>,
                 lastSaidTextID |-> ev.id, tInit |-> FALSE]
      ELSE IF strncmp0(ev.type, sound_, 5)
      THEN [same EXCEPT !.calls = handleSound(ev.body)]
      ELSE IF strncmp0(ev.type, audio_, 5)
      THEN [same EXCEPT !.calls = handleAudio(ev.body)]
      ELSE IF strncmp0(ev.type, error_, 5) THEN same
      ELSE IF strncmp0(ev.type, askSpecial_, 10) THEN same
      ELSE IF strncmp0(ev.type, ping_, 4)
      THEN [same EXCEPT !.out = handlePing]
      ELSE IF IsIgnoredType(ev.type) THEN same
      ELSE same

\* wsClient::connect: a new session and transport; the URL carries the
\* configured conversation id cfg (app->m_config->conversationId, which the
\* configuration surface owns), NoConversation for none.
FreeWsConn == CHOOSE t \in WsConns :
                wsconn[t] = "none" /\ \A s \in WsConns : s < t => wsconn[s] # "none"

ws_connect(st, cfg) ==
  /\ wsconn' = [st EXCEPT ![FreeWsConn] = "connecting"]
  /\ wsurl' = [wsurl EXCEPT ![FreeWsConn] = cfg]

ConfigIds == { NoConversation, <<"c", "0">> }

\* An init that is run again whenever no attempt is pending or open.
WS_init_retry ==
  /\ \A t \in WsConns : wsconn[t] \notin {"connecting", "open"}
  /\ \E n \in WsConns : wsconn[n] = "none"
  /\ \E cfg \in ConfigIds : ws_connect(wsconn, cfg)
  /\ UNCHANGED <<ws_wconn, ws_acceptStream, seq, lastSaidTextID, tInit,
                 tStart, lastTT, conversationId>>
  /\ UNCHANGED sttVars
  /\ calls' = <<>>
  /\ ws_out' = <<>>
  /\ lastOp' = NoOp

\* wsClient::init
WS_init ==
  /\ \A t \in WsConns : wsconn[t] = "none"
  /\ \E cfg \in ConfigIds : ws_connect(wsconn, cfg)
  /\ UNCHANGED <<ws_wconn, ws_acceptStream, seq, lastSaidTextID, tInit,
                 tStart, lastTT, conversationId>>
  /\ UNCHANGED sttVars
  /\ calls' = <<>>
  /\ ws_out' = <<>>
  /\ lastOp' = NoOp

\* An on_connection that calls connect() again after an error.
ws_on_connection_retries(t, ok) ==
  /\ wsconn[t] = "connecting"
  /\ IF ~ok
     THEN /\ IF \E n \in WsConns : wsconn[n] = "none"
             THEN ws_connect([wsconn EXCEPT ![t] = "failed"], wsurl[t])
             ELSE /\ wsconn' = [wsconn EXCEPT ![t] = "failed"]
                  /\ wsurl' = wsurl
          /\ UNCHANGED <<ws_wconn, ws_acceptStream>>
     ELSE /\ wsconn' = [wsconn EXCEPT ![t] = "open"]
          /\ wsurl' = wsurl
          /\ ws_wconn' = t
          /\ ws_acceptStream' = FALSE
  /\ UNCHANGED <<seq, lastSaidTextID, tInit, tStart, lastTT, conversationId>>
  /\ UNCHANGED sttVars
  /\ calls' = <<>>
  /\ ws_out' = <<>>
  /\ lastOp' = NoOp

\* An on_connection that forgets the last text said.
ws_on_connection_resets_last(t, ok) ==
  /\ wsconn[t] = "connecting"
  /\ IF ~ok
     THEN /\ wsconn' = [wsconn EXCEPT ![t] = "failed"]
          /\ UNCHANGED <<ws_wconn, ws_acceptStream, lastSaidTextID>>
     ELSE /\ wsconn' = [wsconn EXCEPT ![t] = "open"]
          /\ ws_wconn' = t
          /\ ws_acceptStream' = FALSE
          /\ lastSaidTextID' = -1
  /\ UNCHANGED <<seq, tInit, tStart, lastTT, conversationId, wsurl>>
  /\ UNCHANGED sttVars
  /\ calls' = <<>>
  /\ ws_out' = <<>>
  /\ lastOp' = NoOp

\* wsClient::on_connection: on an error it returns; else setConnection,
\* acceptStream = false, and the handlers are connected.
ws_on_connection(t, ok) ==
  /\ wsconn[t] = "connecting"
  /\ IF ~ok
     THEN /\ wsconn' = [wsconn EXCEPT ![t] = "failed"]
          /\ UNCHANGED <<ws_wconn, ws_acceptStream>>
     ELSE /\ wsconn' = [wsconn EXCEPT ![t] = "open"]
          /\ ws_wconn' = t
          /\ ws_acceptStream' = FALSE
  /\ UNCHANGED <<seq, lastSaidTextID, tInit, tStart, lastTT, conversationId,
                 wsurl>>
  /\ UNCHANGED sttVars
  /\ calls' = <<>>
  /\ ws_out' = <<>>
  /\ lastOp' = NoOp

WS_on_connection == \E t \in WsConns, ok \in BOOLEAN : ws_on_connection(t, ok)

\* An on_message that drops the id event too while acceptStream is false.
ws_on_message_gate_on_id(t, text, ev) ==
  /\ wsconn[t] = "open"
  /\ IF ~text
     THEN /\ UNCHANGED <<ws_acceptStream, seq, lastSaidTextID, tInit,
                         conversationId>>
          /\ calls' = <<>>
          /\ ws_out' = <<>>
     ELSE IF strncmp0(ev.type, id_, 2) /\ ws_acceptStream
     THEN /\ conversationId' = ev.body
          /\ ws_acceptStream' = TRUE
          /\ UNCHANGED <<seq, lastSaidTextID, tInit>>
          /\ calls' = <<>>
          /\ ws_out' = <<>>
     ELSE /\ seq' = ev.id
          /\ UNCHANGED <<ws_acceptStream, conversationId>>
          /\ IF ws_acceptStream
             THEN LET d == Dispatch(ev)
                  IN  /\ calls' = d.calls
                      /\ ws_out' = d.out
                      /\ lastSaidTextID' = d.lastSaidTextID
                      /\ tInit' = d.tInit
             ELSE /\ calls' = <<>>
                  /\ ws_out' = <<>>
                  /\ UNCHANGED <<lastSaidTextID, tInit>>
  /\ UNCHANGED <<ws_wconn, wsconn, wsurl, tStart, lastTT>>
  /\ UNCHANGED sttVars
  /\ lastOp' = Op(IF text THEN "ws_on_message" ELSE "ws_on_message_binary",
                  t, ev)

\* wsClient::on_message on transport t: text says whether the data type is
\* SOUP_WEBSOCKET_DATA_TEXT, ev is the parsed JSON object.
ws_on_message(t, text, ev) ==
  /\ wsconn[t] = "open"
  /\ IF ~text
     THEN /\ UNCHANGED <<ws_acceptStream, seq, lastSaidTextID, tInit,
                         conversationId>>
          /\ calls' = <<>>
          /\ ws_out' = <<>>
     ELSE IF strncmp0(ev.type, id_, 2)
     THEN \* handleConversationID
          /\ conversationId' = ev.body
          /\ ws_acceptStream' = TRUE
          /\ UNCHANGED <<seq, lastSaidTextID, tInit>>
          /\ calls' = <<>>
          /\ ws_out' = <<>>
     ELSE /\ seq' = ev.id
          /\ UNCHANGED <<ws_acceptStream, conversationId>>
          /\ IF ws_acceptStream
             THEN LET d == Dispatch(ev)
                  IN  /\ calls' = d.calls
                      /\ ws_out' = d.out
                      /\ lastSaidTextID' = d.lastSaidTextID
                      /\ tInit' = d.tInit
             ELSE /\ calls' = <<>>
                  /\ ws_out' = <<>>
                  /\ UNCHANGED <<lastSaidTextID, tInit>>
  /\ UNCHANGED <<ws_wconn, wsconn, wsurl, tStart, lastTT>>
  /\ UNCHANGED sttVars
  /\ lastOp' = Op(IF text THEN "ws_on_message" ELSE "ws_on_message_binary",
                  t, ev)

\* An on_close that does not call connect().
ws_on_close_no_reconnect(t) ==
  /\ wsconn[t] = "open"
  /\ \E n \in WsConns : wsconn[n] = "none"
  /\ wsconn' = [wsconn EXCEPT ![t] = "closed"]
  /\ UNCHANGED <<ws_wconn, ws_acceptStream, seq, lastSaidTextID, tInit,
                 tStart, lastTT, conversationId, wsurl>>
  /\ UNCHANGED sttVars
  /\ calls' = <<>>
  /\ ws_out' = <<>>
  /\ lastOp' = NoOp

\* wsClient::on_close: the transport reached CLOSED; connect() is called.
ws_on_close(t) ==
  /\ wsconn[t] = "open"
  /\ \E n \in WsConns : wsconn[n] = "none"
  /\ \E cfg \in ConfigIds : ws_connect([wsconn EXCEPT ![t] = "closed"], cfg)
  /\ UNCHANGED <<ws_wconn, ws_acceptStream, seq, lastSaidTextID, tInit,
                 tStart, lastTT, conversationId>>
  /\ UNCHANGED sttVars
  /\ calls' = <<>>
  /\ ws_out' = <<>>
  /\ lastOp' = NoOp

WS_on_close == \E t \in WsConns : ws_on_close(t)

\* A caller's wsClient::sendCommand(data).
ws_sendCommand(data, u) ==
  /\ u => ws_wconn = UNINIT
  /\ LET r == sendCommand(data, u)
     IN  /\ ws_out' = r.out
         /\ tInit' = r.tInit
         /\ tStart' = r.tStart
  /\ UNCHANGED <<ws_wconn, ws_acceptStream, seq, lastSaidTextID,
                 conversationId, wsconn, wsurl, lastTT>>
  /\ UNCHANGED sttVars
  /\ calls' = <<>>
  /\ lastOp' = Op("ws_sendCommand", ws_wconn, Event(<<>>, 0, data))

\* A caller's wsClient::sendThingtalk(data): seq is incremented, then sent.
ws_sendThingtalk(data, u) ==
  /\ seq < MaxSeq
  /\ u => ws_wconn = UNINIT
  /\ IF ~checkIsConnected(u)
     THEN /\ ws_out' = <<>>
          /\ seq' = seq
          /\ lastTT' = lastTT
     ELSE LET n == IF seq = UNINIT THEN UNINIT ELSE seq + 1
          IN  /\ seq' = n
              /\ ws_out' = <<Json(ws_wconn, "tt", data, n)>>
              /\ lastTT' = <<n>>
  /\ UNCHANGED <<ws_wconn, ws_acceptStream, lastSaidTextID, tInit, tStart,
                 conversationId, wsconn, wsurl>>
  /\ UNCHANGED sttVars
  /\ calls' = <<>>
  /\ lastOp' = Op("ws_sendThingtalk", ws_wconn, Event(<<>>, 0, data))

\* ---------------------------------------------------------------- inputs
hi_ == <<"h", "i">>
lights_ == <<"c", "o", "m", "p", "u", "t", "e", "r", ",", " ", "t", "u", "r",
             "n", " ", "o", "n", " ", "t", "h", "e", " ", "l", "i", "g", "h",
             "t", "s">>

\* Replies the streaming specification draws from.
StreamReplies == { TextReply(1, <<>>, <<>>), BinaryReply }

Words == { Computer_, computer_,
           <<"C", "O", "M", "P", "U", "T", "E", "R">>,
           <<"c", "o", "m", "p", "u", "t", "e", "R">>,
           <<"c", "o", "m", "p", "u", "t", "e">>,
           <<"x">> \o computer_, <<>> }
Afters == { <<>>, <<",">>, <<".">>, <<"!">>, <<" ">>, <<"s">> }
Rests == { <<>>, hi_, <<" ">> \o hi_, <<" ", "\t", " ">> \o hi_,
           <<" ">> \o hi_ \o <<" ">> }
Texts ==
  { w \o a \o <<" ">> \o hi_ : w \in Words, a \in Afters }
  \cup { w \o a \o r : w \in {Computer_, computer_}, a \in {<<>>, <<",">>},
                        r \in Rests }
  \cup { lights_ }

okay_ == <<"o", "k", "a", "y">>
BadResults == { <<"e", "r", "r", "o", "r">>, <<"n", "o">>, <<"O", "K">> }

\* Every reply the reply specification draws from: a status, for status 0 a
\* result, for an accepted result a text.
AllReplies ==
  { TextReply(1, <<>>, <<>>), TextReply(2, ok_, lights_), BinaryReply }
  \cup { TextReply(0, r, <<>>) : r \in BadResults }
  \cup { TextReply(0, okay_, lights_), TextReply(0, okay_, hi_) }
  \cup { TextReply(0, ok_, t) : t \in Texts }

\* Types whose handling reads the event id or reaches the Audio Player.
PlayedTypes == { text_, sound_, audio_ }
OtherTypes ==
  { id_, id_ \o <<"l", "e">>, error_, askSpecial_, ping_, command_,
    new_program_, rdl_, link_, button_, video_, picture_, choice_,
    <<"c", "h", "o", "i", "c">>, <<"r", "e", "s", "u", "l", "t">>,
    <<"t", "e", "x">>, <<"T", "e", "x", "t">>, text_ \o <<"s">>,
    ping_ \o <<"p", "o", "n", "g">> }
EventTypes == PlayedTypes \cup OtherTypes

\* The text ids of the out-of-order scenario: 5, then 3.
ScenarioIds == {3, 5}

EventIds(type) ==
  IF type = text_ THEN (-1..MaxId) \cup ScenarioIds
  ELSE IF type \in PlayedTypes THEN -1..MaxId
  ELSE {1}

SoundNames ==
  { news_intro_, news_intro_ \o <<"2">>, <<"a", "l", "a", "r", "m">> }

\* The member an event's handler reads.
Bodies(type) ==
  IF strncmp0(type, id_, 2) THEN { <<"c", "0">>, <<"c", "1">> }
  ELSE IF strncmp0(type, sound_, 5) THEN SoundNames
  ELSE { hi_ }

Events ==
  UNION { { Event(ty, IF strncmp0(ty, id_, 2) THEN 0 ELSE i, b) :
              i \in EventIds(ty), b \in Bodies(ty) } : ty \in EventTypes }

Commands == { hi_ }

\* ------------------------------------------------------- specifications
\* The state after the two constructors and STT::init.  wsClient's
\* constructor assigns neither wconn nor seq nor acceptStream.
Init ==
  /\ stt_acceptStream = FALSE
  /\ stt_wconn = NULL
  /\ queue = <<>>
  /\ firstFrame = "unset"
  /\ sconn = [t \in Conns |-> "none"]
  /\ sent = <<>>
  /\ submitted = <<>>
  /\ awaiting = FALSE
  /\ idle = FALSE
  /\ handled = {}
  /\ drained = 0
  /\ ws_wconn = UNINIT
  /\ ws_acceptStream = UNINIT
  /\ seq = UNINIT
  /\ lastSaidTextID = -1
  /\ tInit = FALSE
  /\ tStart = UNINIT
  /\ lastTT = <<>>
  /\ conversationId = NoConversation
  /\ wsconn = [t \in WsConns |-> "none"]
  /\ wsurl = [t \in WsConns |-> NoConversation]
  /\ calls = <<>>
  /\ ws_out = <<>>
  /\ lastOp = NoOp

STT_on_message ==
  \E t \in Conns, m \in StreamReplies, u \in BOOLEAN : on_message(t, m, u)

STT_on_reply ==
  \E t \in Conns, m \in AllReplies, u \in BOOLEAN : on_message(t, m, u)

WS_on_message ==
  \E t \in WsConns, text \in BOOLEAN, ev \in Events :
    /\ text \/ ev = Event(text_, 0, hi_)
    /\ ws_on_message(t, text, ev)

WS_sendCommand == \E d \in Commands, u \in BOOLEAN : ws_sendCommand(d, u)

WS_sendThingtalk == \E d \in Commands, u \in BOOLEAN : ws_sendThingtalk(d, u)

\* The STT client streaming audio: its callers, its transports, its server.
Next ==
  \/ STT_connect
  \/ STT_on_connection
  \/ STT_send_frame
  \/ STT_send_done
  \/ STT_on_message
  \/ STT_on_close

Spec == Init /\ [][Next]_vars

STT_connect_reply ==
  /\ Cardinality({t \in Conns : sconn[t] # "none"}) < MaxReplyConn
  /\ STT_connect

\* The STT client handling its replies.
NextReply ==
  \/ STT_connect_reply
  \/ STT_on_connection
  \/ STT_on_reply
  \/ STT_on_close

SpecReply == Init /\ [][NextReply]_vars

\* The dialogue client receiving: its transports and its server.
NextDlg ==
  \/ WS_init
  \/ WS_on_connection
  \/ WS_on_message
  \/ WS_on_close

SpecDlg == Init /\ [][NextDlg]_vars

\* Events the sending specification draws from: the id event and events
\* that set the sequence number or are answered.
SendEvents ==
  { e \in Events : e.type \in {id_, text_, ping_} /\ e.id <= MaxId }

WS_on_send_event ==
  \E t \in WsConns, ev \in SendEvents : ws_on_message(t, TRUE, ev)

\* The dialogue client sending: its callers, its transports, its server.
NextSend ==
  \/ WS_init
  \/ WS_on_connection
  \/ WS_on_send_event
  \/ WS_on_close
  \/ WS_sendCommand
  \/ WS_sendThingtalk

SpecSend == Init /\ [][NextSend]_vars

\* ================================================================ claims
\* What each STT transport carried, in the order libsoup accepted it.
Wire(snt, t) == SelectSeq(snt, LAMBDA p : p.conn = t)
Binary(snt) == SelectSeq(snt, LAMBDA p : p.kind = "binary")

\* The frames behind the binary payloads sent so far, then the frames
\* still queued: everything the client holds or has passed on, oldest first.
Pipeline ==
  LET b == Binary(sent)
  IN  [i \in 1..Len(b) |->
         [samples |-> b[i].data, length |-> b[i].bytes \div SizeofInt16]]
      \o queue

Audio(fs) == SelectSeq(fs, LAMBDA f : f.length > 0)
Marker(c) == Payload(c, "binary", NULL, 0)
IsSubmission == submitted' # submitted
Submission == submitted'[Len(submitted')]
Enqueued == queue' = Append(queue, Submission) /\ sent' = sent

\* C1: the audio frames given to send_frame are, in the order given, first
\* the ones transmitted as binary payloads (in transmission order, across
\* the open callback that drains the queue) and then the ones still queued;
\* each of them appears there exactly once.
C1_FifoDelivery ==
  /\ Audio(Pipeline) = Audio(submitted)
  /\ \A k \in 1..Len(submitted) :
       submitted[k].length > 0 =>
         Cardinality({i \in 1..Len(Pipeline) : Pipeline[i] = submitted[k]}) = 1
  /\ \A i \in 1..Len(sent) :
       sent[i].kind = "binary" /\ sent[i].bytes > 0 =>
         sent[i].bytes = SizeofInt16

\* Two frames were queued while the connection was not open, the open
\* callback drained them, and a third frame was sent after them.
C1_Witness ==
  /\ drained = 2
  /\ sent = <<Handshake(1), Payload(1, "binary", 1, 2),
              Payload(1, "binary", 2, 2), Payload(1, "binary", 3, 2)>>
  /\ queue = <<>>

\* C2: after every handler, an open connection has an empty frame queue.
C2_OpenMeansEmptyQueue == is_connection_open => queue = <<>>

\* The connection opened with frames waiting, and the queue is empty.
C2_Witness == is_connection_open /\ drained >= 2 /\ queue = <<>>

C4_MarkerInOrder ==
  /\ [](Pipeline = submitted)
  /\ [][IsSubmission /\ Submission = EmptyFrame =>
          IF is_connection_open
          THEN /\ sent' = Append(flush_queue(sent, sconn, stt_wconn, queue),
                                 Marker(stt_wconn))
               /\ queue' = <<>>
          ELSE Enqueued]_vars

\* A frame and the marker were queued, the connection opened, and a frame
\* sent afterwards follows the marker on the wire.
C4_Witness ==
  /\ drained = 2
  /\ sent = <<Handshake(1), Payload(1, "binary", 1, 2), Marker(1),
              Payload(1, "binary", 3, 2)>>

IsReply == lastOp.op = "on_message" /\ lastOp.msg.type = "text"
FailureCue == <<Call("playSound", SOUND_NO_MATCH), Call("resume", <<>>)>>

\* C5: a text reply whose status is not 0, or whose status is 0 and whose
\* result is not "ok", plays the failure cue, resumes playback and sends
\* no command.
C5_FailureCue ==
  IsReply /\ (lastOp.msg.status # 0 \/ lastOp.msg.result # ok_) =>
    calls = FailureCue /\ ws_out = <<>>

IsSuccess == IsReply /\ lastOp.msg.status = 0 /\ lastOp.msg.result = ok_

IsPrefix(p, t) == Len(t) >= Len(p) /\ SubSeq(t, 1, Len(p)) = p
SixPrefixes ==
  { Computer_ \o <<",">>, computer_ \o <<",">>, Computer_ \o <<".">>,
    computer_ \o <<".">>, Computer_, computer_ }
Lower(t) ==
  [i \in 1..Len(t) |->
     CASE t[i] = "C" -> "c" [] t[i] = "O" -> "o" [] t[i] = "M" -> "m"
       [] t[i] = "P" -> "p" [] t[i] = "U" -> "u" [] t[i] = "T" -> "t"
       [] t[i] = "E" -> "e" [] t[i] = "R" -> "r" [] OTHER -> t[i]]
NotFound == <<Call("clean_queue", <<>>)>> \o FailureCue

\* C6 as stated: the wake word is found iff the text begins, compared
\* case-insensitively, with one of the six prefixes.
C6_CaseInsensitive ==
  IsSuccess =>
    (CallsCommand(calls) <=>
       \E p \in SixPrefixes : IsPrefix(Lower(p), Lower(lastOp.msg.text)))

\* C6: the wake word is found iff the text begins, compared byte for byte,
\* with one of the six literal prefixes; a text that begins with none of
\* them plays the no-match cue, resumes playback and sends no command.
C6_SixLiteralPrefixes ==
  IsSuccess =>
    IF \E p \in SixPrefixes : IsPrefix(p, lastOp.msg.text)
    THEN CallsCommand(calls)
    ELSE calls = NotFound /\ ws_out = <<>>

\* "COMPUTER, hi" was recognized and classified as wake word not found.
C6_Witness ==
  /\ IsSuccess
  /\ lastOp.msg.text = <<"C", "O", "M", "P", "U", "T", "E", "R", ",", " ">> \o hi_
  /\ calls = NotFound

\* The text without its first n characters and without leading white space.
Remainder(t, n) ==
  LET r == [i \in 1..(Len(t) - n) |-> t[i + n]]
      k == CHOOSE j \in 0..Len(r) :
             /\ \A i \in 1..j : r[i] \in {" ", "\t", "\n", "\r", "\f"}
             /\ j < Len(r) => r[j + 1] \notin {" ", "\t", "\n", "\r", "\f"}
  IN  [i \in 1..(Len(r) - k) |-> r[i + k]]

turn_on_the_lights_ ==
  <<"t", "u", "r", "n", " ", "o", "n", " ", "t", "h", "e", " ", "l", "i", "g",
    "h", "t", "s">>

\* C7: a successful reply whose text starts with a wake phrase calls
\* sendCommand once, after clean_queue, with the text that remains after
\* the first 9 characters (wake word followed by ',' or '.') or else the
\* first 8, leading white space removed; "computer, turn on the lights"
\* gives sendCommand("turn on the lights").
C7_StrippedCommand ==
  /\ IsSuccess /\ (\E p \in SixPrefixes : IsPrefix(p, lastOp.msg.text)) =>
       LET t == lastOp.msg.text
           n == IF Len(t) >= 9 /\ t[9] \in {",", "."} THEN 9 ELSE 8
       IN  calls = <<Call("clean_queue", <<>>),
                     Call("sendCommand", Remainder(t, n))>>
  /\ IsSuccess /\ lastOp.msg.text = lights_ =>
       calls[2] = Call("sendCommand", turn_on_the_lights_)

\* The reply "computer, turn on the lights" was handled.
C7_Witness ==
  /\ IsSuccess
  /\ lastOp.msg.text = lights_
  /\ Len(calls) = 2
  /\ calls[2].op = "sendCommand"

C9_StaysNotOpen == idle => ~is_connection_open

Closes(t) == sconn[t] \in {"open", "closing"} /\ sconn'[t] = "closed"
Fails(t) == sconn[t] = "connecting" /\ sconn'[t] = "failed"
Opens(t) == sconn[t] = "connecting" /\ sconn'[t] = "open"
NoConnect == \A n \in Conns : sconn[n] = "none" => sconn'[n] = "none"

\* C9: neither on_close nor a failed on_connection starts a connect
\* attempt; on_close clears acceptStream and leaves the client not open, a
\* failed on_connection leaves the client as it was; the client becomes
\* open only in the open callback of a connect attempt, and while it is
\* not open every send_frame and send_done is enqueued.
C9_NoSelfReconnect ==
  [][/\ \A t \in Conns :
          /\ Closes(t) =>
               NoConnect /\ stt_acceptStream' = FALSE /\ ~is_connection_open'
          /\ Fails(t) =>
               /\ NoConnect
               /\ UNCHANGED <<stt_acceptStream, stt_wconn, queue, sent>>
     /\ ~is_connection_open /\ is_connection_open' =>
          \E t \in Conns : Opens(t) /\ stt_wconn' = t
     /\ ~is_connection_open /\ IsSubmission => Enqueued]_vars

\* Transport 1 carried a frame and closed; no connect attempt followed, and
\* the next frame was enqueued.
C9_Witness ==
  /\ idle
  /\ sconn[1] = "closed"
  /\ sconn[2] = "none"
  /\ ~stt_acceptStream
  /\ Len(sent) = 2
  /\ Len(queue) = 1

WsOpens(t) == wsconn[t] = "connecting" /\ wsconn'[t] = "open"
Accepting == ws_wconn # UNINIT /\ ws_acceptStream
IsEvent == lastOp'.op = "ws_on_message"
\* on_message takes an event for the id event when strncmp(type, "id", 2)
\* is 0.
IsIdEvent == IsEvent /\ strncmp0(lastOp'.msg.type, id_, 2)

Ev == lastOp'.msg
Accepted == IsEvent /\ ~IsIdEvent /\ Accepting
PlayNewsIntro == <<Call("playSound", <<"SOUND_NEWS_INTRO", "true">>)>>

\* C11 as stated: an event of any type whose id is at most the last-applied
\* text id makes no Audio Player call.
C11_StaleNeverPlayed ==
  [][IsEvent /\ Ev.id <= lastSaidTextID => calls' = <<>>]_vars

\* C11: a text event whose id is at most the last-applied text id makes no
\* Audio Player call; an accepted sound event with the catalog name and an
\* accepted audio event reach the Audio Player whatever their id.
C11_StaleTextNeverPlayed ==
  [][/\ IsEvent /\ Ev.type = text_ /\ Ev.id <= lastSaidTextID =>
          calls' = <<>> /\ lastSaidTextID' = lastSaidTextID
     /\ Accepted /\ Ev.type = sound_ /\ Ev.body = news_intro_ =>
          calls' = PlayNewsIntro
     /\ Accepted /\ Ev.type = audio_ =>
          calls' = <<Call("playLocation", Ev.body)>>]_vars

\* After text 1 was said, the sound event with id 0 was played.
C11_Witness ==
  /\ lastSaidTextID = 1
  /\ lastOp.op = "ws_on_message"
  /\ lastOp.msg.type = sound_
  /\ lastOp.msg.id = 0
  /\ calls = PlayNewsIntro

IsTextEvent == IsEvent /\ strncmp0(Ev.type, text_, 4)
Says == \E i \in 1..Len(calls') : calls'[i].op = "say"

\* C12: an accepted text event calls say() iff its id is greater than
\* lastSaidTextID, which then becomes that id; nothing else calls say(),
\* and lastSaidTextID starts at -1 and never decreases, open callbacks and
\* reconnects included, so the ids said are strictly increasing; after
\* text 5 was said, text 3 is discarded.
C12_StrictlyIncreasingTextIds ==
  /\ lastSaidTextID = -1
  /\ [][/\ Accepted /\ IsTextEvent =>
           (IF Ev.id > lastSaidTextID
            THEN /\ calls' = <<Call("say", Ev.body)>>
                 /\ lastSaidTextID' = Ev.id
            ELSE /\ calls' = <<>>
                 /\ lastSaidTextID' = lastSaidTextID)
        /\ Says => Accepted /\ IsTextEvent /\ Ev.id > lastSaidTextID
        /\ lastSaidTextID' >= lastSaidTextID
        /\ lastSaidTextID' # lastSaidTextID => Says]_vars

\* Text 5 was said on the first transport; after the reconnect and its id
\* event, text 3 was discarded.
C12_Witness ==
  /\ lastSaidTextID = 5
  /\ ws_wconn = 2
  /\ ws_acceptStream = TRUE
  /\ lastOp.op = "ws_on_message"
  /\ lastOp.msg.type = text_
  /\ lastOp.msg.id = 3
  /\ calls = <<>>

IsPing == IsEvent /\ Ev.type = ping_
Pong(c) == Json(c, "pong", <<>>, 0)

\* C13 as stated: every ping event sends exactly one pong and changes
\* nothing else, the sequence number included.
C13_PingNoSideEffect ==
  [][IsPing =>
       /\ ws_out' = <<Pong(lastOp'.conn)>>
       /\ calls' = <<>>
       /\ UNCHANGED <<seq, lastSaidTextID, ws_acceptStream,
                      conversationId>>]_vars

\* C13: a ping event received while acceptStream is true sends exactly one
\* pong on the client's transport, one received while it is false sends
\* nothing; either way it makes no Audio Player call, sets the sequence
\* number to the event's id and leaves the last-applied text id, the
\* accept-stream flag and the conversation id as they were.
C13_PingPong ==
  [][IsPing =>
       /\ ws_out' = IF Accepting THEN <<Pong(ws_wconn)>> ELSE <<>>
       /\ lastOp'.conn = ws_wconn
       /\ calls' = <<>>
       /\ seq' = Ev.id
       /\ UNCHANGED <<lastSaidTextID, ws_acceptStream, conversationId,
                      tInit, tStart>>]_vars

\* A ping was answered after a text had been said and a ThingTalk message
\* had been sent: the sequence number is now the ping's id.
C13_Witness ==
  /\ lastOp.op = "ws_on_message"
  /\ lastOp.msg.type = ping_
  /\ ws_out = <<Pong(ws_wconn)>>
  /\ lastSaidTextID = 2
  /\ seq = lastOp.msg.id

WsCloses(t) == wsconn[t] = "open" /\ wsconn'[t] = "closed"
WsConnects(t) == wsconn[t] = "none" /\ wsconn'[t] = "connecting"
Attempts == {t \in WsConns : wsconn[t] # "none"}
Closed == {t \in WsConns : wsconn[t] = "closed"}

\* C14: the handler of a dialogue transport's close calls connect() exactly
\* once before it returns, so no event is handled between the close and
\* the connect; over the client's lifetime the connect attempts are the
\* one of init and one per closed transport.
C14_ReconnectOnClose ==
  /\ [][\A t \in WsConns :
          WsCloses(t) =>
            /\ Cardinality({n \in WsConns : WsConnects(n)}) = 1
            /\ lastOp' = NoOp
            /\ calls' = <<>> /\ ws_out' = <<>>]_vars
  /\ [](Cardinality(Attempts) =
          Cardinality(Closed) + (IF Attempts = {} THEN 0 ELSE 1))

\* The first transport, on which a text had been said, closed and the
\* reconnect is under way.
C14_Witness ==
  /\ wsconn[1] = "closed"
  /\ wsconn[2] = "connecting"
  /\ lastSaidTextID >= 0

WsFails(t) == wsconn[t] = "connecting" /\ wsconn'[t] = "failed"

\* C15: a dialogue connect attempt that completes with an error starts no
\* connect attempt and leaves wconn, acceptStream and the rest of the
\* client as they were; no handler is registered on the failed transport,
\* so it stays failed and no message or close is ever handled on it.
C15_FailureNotRetried ==
  [][/\ \A t \in WsConns :
          /\ WsFails(t) =>
               /\ \A n \in WsConns : ~WsConnects(n)
               /\ UNCHANGED <<ws_wconn, ws_acceptStream, seq, lastSaidTextID,
                              tInit, tStart, conversationId>>
               /\ calls' = <<>> /\ ws_out' = <<>>
          /\ wsconn[t] = "failed" => wsconn'[t] = "failed"
     /\ lastOp'.op \in {"ws_on_message", "ws_on_message_binary"} =>
          wsconn[lastOp'.conn] = "open"]_vars

\* The reconnect after the first transport's close failed: the handle
\* still names the closed transport and nothing is attempted.
C15_Witness ==
  /\ wsconn[1] = "closed"
  /\ wsconn[2] = "failed"
  /\ ws_wconn = 1
  /\ ws_acceptStream = TRUE

\* C16: once an id event has assigned a conversation id, every later
\* connect() builds its URL with that id as the id query parameter.
C16_IdReusedOnConnect ==
  [][\A n \in WsConns :
       WsConnects(n) /\ conversationId # NoConversation =>
         wsurl'[n] = conversationId]_vars

\* sendThingtalk sent a message.
SendsTT == lastOp'.op = "ws_sendThingtalk" /\ ws_out' # <<>>

\* C17: each tt message carries the sequence number after the increment,
\* and, whatever events arrive between the calls, the id of each tt
\* message is greater than the id of the one sent before it.
C17_StrictlyIncreasingIds ==
  [][SendsTT /\ seq # UNINIT =>
       /\ ws_out'[1].id = seq + 1 /\ seq' = seq + 1
       /\ lastTT # <<>> /\ lastTT # <<UNINIT>> =>
            ws_out'[1].id > lastTT[1]]_vars

\* C18: on every STT transport a zero-length binary payload is the last
\* payload: no frame and no second marker follows it, whatever send_frame
\* and send_done calls are made.
C18_NothingAfterMarker ==
  \A t \in Conns :
    LET w == Binary(Wire(sent, t))
    IN  \A i \in 1..Len(w) : w[i].bytes = 0 => i = Len(w)

IgnoredSet == { command_, new_program_, rdl_, link_, button_, video_,
                picture_, choice_ }
KnownTypes ==
  { id_, text_, sound_, audio_, error_, askSpecial_, ping_ } \cup IgnoredSet
NonActionable(ev) ==
  \/ ev.type \in {error_, askSpecial_} \cup IgnoredSet
  \/ ev.type = sound_ /\ ev.body # news_intro_
  \/ ev.type \notin KnownTypes

\* C19: an event received while acceptStream is true whose type is error,
\* askSpecial, one of the ignored set, sound with a name other than the
\* catalog entry, or not exactly one of the known types, makes no Audio
\* Player call, sends nothing and leaves the accept-stream flag, the
\* last-applied text id and the conversation id as they were.
C19_NonActionableNoEffect ==
  [][IsEvent /\ Accepting /\ NonActionable(Ev) =>
       /\ calls' = <<>>
       /\ ws_out' = <<>>
       /\ UNCHANGED <<ws_acceptStream, lastSaidTextID,
                      conversationId>>]_vars

\* The handle names a transport whose state is OPEN.
HandleOpen == ws_wconn \in WsConns /\ wsconn[ws_wconn] = "open"
IsSend == lastOp'.op \in {"ws_sendCommand", "ws_sendThingtalk"}

Failed == {t \in WsConns : wsconn[t] = "failed"}

\* C21 as stated: while every connect attempt fails the client keeps
\* issuing attempts: the failure of an attempt starts the next one.
C21_RetriesAfterFailure ==
  [][\A t \in WsConns :
       WsFails(t) /\ (\E n \in WsConns : wsconn[n] = "none") =>
         \E n \in WsConns : WsConnects(n)]_vars

\* C21: once a dialogue connect attempt has failed the client never issues
\* another; when every attempt fails, the attempt of init is the only one.
\* Attempts are repeated, at once and without a ceiling, only after the
\* close of a transport that had opened.
C21_FailureEndsReconnect ==
  /\ [][(\E t \in WsConns : wsconn[t] = "failed" \/ WsFails(t)) =>
          \A n \in WsConns : ~WsConnects(n)]_vars
  /\ [](Attempts # {} /\ Attempts = Failed => Cardinality(Attempts) = 1)
  /\ [][\A n \in WsConns :
          WsConnects(n) /\ Attempts # {} =>
            \E t \in WsConns : WsCloses(t)]_vars

\* The attempt of init failed: it is the only attempt, and the client is
\* at rest.
C21_Witness ==
  /\ Attempts = {1}
  /\ Failed = {1}
  /\ ws_wconn = UNINIT
  /\ lastOp = NoOp

\* C22: in the handling of an STT reply every sendCommand and every
\* playSound is preceded, in the same handler, by clean_queue.
C22_CleanQueueFirst ==
  lastOp.op = "on_message" =>
    \A i \in 1..Len(calls) :
      calls[i].op \in {"sendCommand", "playSound"} =>
        \E j \in 1..(i - 1) : calls[j].op = "clean_queue"

\* A transport is open and its id event has not arrived yet.
BeforeId == HandleOpen /\ ~ws_acceptStream

\* C23 as stated: between a dialogue transport's open callback and its id
\* event, sendCommand and sendThingtalk send nothing.
C23_NothingBeforeId ==
  [][IsSend /\ BeforeId => ws_out' = <<>>]_vars

\* C23: sendCommand and sendThingtalk look at the transport's state only:
\* between the open callback and the id event, as after it, each call
\* sends its message on the open transport; sendCommand sets tInit.
C23_SendsBeforeId ==
  [][IsSend /\ HandleOpen =>
       /\ Len(ws_out') = 1
       /\ ws_out'[1].conn = ws_wconn
       /\ ws_out'[1].type =
            (IF lastOp'.op = "ws_sendCommand" THEN "command" ELSE "tt")
       /\ ws_out'[1].body = lastOp'.msg.body
       /\ lastOp'.op = "ws_sendCommand" => tInit'
       /\ UNCHANGED ws_acceptStream]_vars

\* After the automatic reconnect and before the new transport's id event,
\* a command was sent on the new transport.
C23_Witness ==
  /\ ws_wconn = 2
  /\ wsconn = <<"closed", "open">>
  /\ ws_acceptStream = FALSE
  /\ lastOp.op = "ws_sendCommand"
  /\ ws_out = <<Json(2, "command", hi_, 0)>>

====
